---- MODULE Spec2Model ----
(***************************************************************************)
(* Kineto (streamlit_app.py): the session store, the page flow, the form  *)
(* validators, the search action with its result flattening, the result    *)
(* display, the movie detail lookup, and the process's cached engine.      *)
(*                                                                         *)
(* One action is one run of the script, started by one user event (a       *)
(* button click or a widget change).  The values the widgets hold during   *)
(* the run (query text, preference mode, slider) are the action's inputs.  *)
(* Text that the code inspects character by character (titles, e-mail      *)
(* addresses, passwords) is a sequence of one-character strings.           *)
(***************************************************************************)
EXTENDS Integers, Sequences, FiniteSets, TLC

VARIABLES
    page,             \* st.session_state.page
    search_results,   \* st.session_state.search_results (None or the engine's result)
    all_movies_list,  \* st.session_state.all_movies_list
    last_query,       \* st.session_state.last_query
    user_info,        \* st.session_state.user_info (a dict)
    logged_in,        \* st.session_state.logged_in
    appearance,       \* st.session_state.appearance
    query_input,      \* st.session_state.query_input: <<>> while the key is absent, else <<q>>
    top_n,            \* st.session_state.top_n: <<>> while the key is absent, else <<n>>
    search_time,      \* st.session_state.search_time: <<>> while absent, else <<"elapsed">>
    run,              \* the user event of the last run and how its search went
    shown,            \* what the last run rendered
    profile_entered,  \* what the user last submitted in the profile form of this
                      \* browser session: <<>> before the first time, else <<the fields>>
    flat_in,          \* flattening harness: the engine result and top_n handed to the flattening
    flat_out,         \* flattening harness: what the flattening produced
    catalog,          \* lookup harness: recommender.movies, a sequence of rows
    lookup_title,     \* lookup harness: the movie_title argument
    lookup_out,       \* lookup harness: what get_movie_details did
    form_in,          \* validation harness: the fields typed into a signup or login form
    form_out,         \* validation harness: what the validators made of them
    recommender,      \* the process's st.cache_resource entry of load_recommender:
                      \* <<>> while empty, else <<the engine instance>>
    constructed       \* how many engine instances the process has constructed

sessionVars == <<page, search_results, all_movies_list, last_query, user_info, logged_in,
                 appearance, query_input, top_n, search_time, run, shown, profile_entered>>
flatVars == <<flat_in, flat_out>>
lookupVars == <<catalog, lookup_title, lookup_out>>
formVars == <<form_in, form_out>>
processVars == <<recommender, constructed>>
vars == <<sessionVars, flatVars, lookupVars, formVars, processVars>>

(***************************************************************************)
(* Bounds of the model.                                                    *)
(***************************************************************************)
\* the longest track (and `recommendations` list) an engine result holds
MaxTrackLen == 6
\* the slider positions tried are TopNMin .. TopNMin + TopNSpan, and the default
TopNSpan == 0
\* how many of the example queries are clicked
MaxExample == 1
\* the most rows of a catalog handed to the lookup
MaxCatalog == 2
\* the catalog titles and looked-up titles tried: some named ones, and every
\* string of at most MaxTitleLen characters over LookupChars
MaxTitleLen == 1
\* the e-mail strings tried: some named ones, and every string of at most
\* MaxEmailLen characters over EmailChars
MaxEmailLen == 7

(***************************************************************************)
(* Program constants.                                                      *)
(***************************************************************************)
TopNMin == 5
TopNMax == 20
DefaultTopN == 10
MinPasswordLen == 6

None == <<>>

Min(a, b) == IF a <= b THEN a ELSE b

Pages == {"welcome", "auth_menu", "signup", "login", "profile", "search"}
Appearances == {"dark", "light", "system"}
PreferenceModes == {"balanced", "accuracy", "ratings"}

example_queries ==
    << "Julia Roberts romances from the 90s",
       "Dark psychological thrillers with a strong female lead",
       "My girlfriend broke up with me - something to cheer me up",
       "Epic war movies set in ancient times",
       "90s action movies with Arnold Schwarzenegger",
       "Coming-of-age movies from the 2010s" >>

init_session_state ==
    /\ page = "welcome"
    /\ search_results = None
    /\ all_movies_list = <<>>
    /\ last_query = ""
    /\ user_info = <<>>
    /\ logged_in = FALSE
    /\ appearance = "dark"
    /\ query_input = <<>>
    /\ top_n = <<>>
    /\ search_time = <<>>

(***************************************************************************)
(* validate_email: re.match of                                             *)
(*   ^[a-zA-Z0-9._%+-]+@[a-zA-Z0-9.-]+\.[a-zA-Z]{2,}$                      *)
(***************************************************************************)
Lower == {"a","b","c","d","e","f","g","h","i","j","k","l","m",
          "n","o","p","q","r","s","t","u","v","w","x","y","z"}
Upper == {"A","B","C","D","E","F","G","H","I","J","K","L","M",
          "N","O","P","Q","R","S","T","U","V","W","X","Y","Z"}
Digit == {"0","1","2","3","4","5","6","7","8","9"}
LocalChars == Lower \cup Upper \cup Digit \cup {".", "_", "%", "+", "-"}
DomainChars == Lower \cup Upper \cup Digit \cup {".", "-"}
TldChars == Lower \cup Upper

AllIn(s, lo, hi, chars) == \A k \in lo..hi : s[k] \in chars

\* `$` also matches just before one trailing newline
email_matches(s, n) ==
    \E at \in 2..n : \E dot \in (at + 2)..(n - 2) :
        /\ s[at] = "@"
        /\ s[dot] = "."
        /\ AllIn(s, 1, at - 1, LocalChars)
        /\ AllIn(s, at + 1, dot - 1, DomainChars)
        /\ AllIn(s, dot + 1, n, TldChars)

\* as validate_email, a top-level label of one letter allowed
validate_email_one_letter_tld(email) ==
    \E at \in 2..Len(email) : \E dot \in (at + 2)..(Len(email) - 1) :
        /\ email[at] = "@"
        /\ email[dot] = "."
        /\ AllIn(email, 1, at - 1, LocalChars)
        /\ AllIn(email, at + 1, dot - 1, DomainChars)
        /\ AllIn(email, dot + 1, Len(email), TldChars)

validate_email(email) ==
    \/ email_matches(email, Len(email))
    \/ /\ Len(email) > 0
       /\ email[Len(email)] = "\n"
       /\ email_matches(email, Len(email) - 1)

(***************************************************************************)
(* The engine's results.  A result is a duck-typed object: a function from *)
(* the attribute names it has to their values; hasattr is membership in    *)
(* its DOMAIN.  A MovieRecommendation carries movie_title and final_score. *)
(***************************************************************************)
T_Heat == <<"H","e","a","t">>
T_HeatWave == <<"H","e","a","t"," ","W","a","v","e">>
T_Up == <<"U","p">>
T_MrX == <<"M","r","."," ","X">>

TitlePool == <<T_Heat, T_Up, T_HeatWave, T_MrX>>

\* the i-th entry of a generated track of n entries; scores rise or fall along the track
MovieAt(i, n, offset, rising) ==
    [movie_title |-> TitlePool[((i + offset) % Len(TitlePool)) + 1],
     final_score |-> IF rising THEN i ELSE n + 1 - i]

Track(n, offset, rising) == [i \in 1..n |-> MovieAt(i, n, offset, rising)]

SingleResult(recs) == [recommendations |-> recs]
DualResult(flag, entity, mood) ==
    [dual_track_mode |-> flag, entity_track |-> entity, mood_track |-> mood]
DualResultWithRecs(flag, entity, mood, recs) ==
    [dual_track_mode |-> flag, entity_track |-> entity, mood_track |-> mood,
     recommendations |-> recs]

(***************************************************************************)
(* Result flattening (the body of the try block after the recommend call). *)
(***************************************************************************)
\* s[:n]
Take(s, n) == SubSeq(s, 1, Min(n, Len(s)))

\* [(i, m.movie_title, m) for i, m in enumerate(track, start)]
enumerate(track, start) ==
    [i \in 1..Len(track) |-> <<start + i - 1, track[i].movie_title, track[i]>>]

\* as is_dual, the flag not looked at
is_dual_ignoring_flag(result) ==
    /\ "entity_track" \in DOMAIN result /\ result.entity_track # <<>>
    /\ "mood_track" \in DOMAIN result /\ result.mood_track # <<>>

is_dual(result) ==
    /\ "dual_track_mode" \in DOMAIN result /\ result.dual_track_mode
    /\ "entity_track" \in DOMAIN result /\ result.entity_track # <<>>
    /\ "mood_track" \in DOMAIN result /\ result.mood_track # <<>>

\* the flattening reads result.recommendations in the single-track branch:
\* AttributeError when the result has no such attribute
flatten_raises(result) ==
    ~is_dual(result) /\ "recommendations" \notin DOMAIN result

\* as build_all_movies, the mood ranks starting after the whole entity track
build_all_movies_untruncated_start(result, n) ==
    IF is_dual(result)
    THEN LET entity == Take(result.entity_track, n)
             start_idx == Len(result.entity_track) + 1
         IN  enumerate(entity, 1) \o enumerate(Take(result.mood_track, n), start_idx)
    ELSE enumerate(Take(result.recommendations, n), 1)

\* as build_all_movies, the mood track listed first
build_all_movies_mood_first(result, n) ==
    IF is_dual(result)
    THEN LET mood == Take(result.mood_track, n)
             start_idx == Len(mood) + 1
         IN  enumerate(mood, 1) \o enumerate(Take(result.entity_track, n), start_idx)
    ELSE enumerate(Take(result.recommendations, n), 1)

build_all_movies(result, n) ==
    IF is_dual(result)
    THEN LET entity == Take(result.entity_track, n)
             start_idx == Len(entity) + 1
         IN  enumerate(entity, 1) \o enumerate(Take(result.mood_track, n), start_idx)
    ELSE enumerate(Take(result.recommendations, n), 1)

(***************************************************************************)
(* The engine.  recommend either raises or returns a result; which, and    *)
(* what result, is the engine's choice.  The results tried: the single-    *)
(* track shape, empty and MaxTrackLen long, and the dual-track shape with  *)
(* the flag set, the mood track empty or not, with or without              *)
(* `recommendations`.                                                      *)
(***************************************************************************)
LongTrack == Track(MaxTrackLen, 0, FALSE)
LongMood == Track(MaxTrackLen, 1, TRUE)

EngineResults ==
    { SingleResult(<<>>),
      SingleResult(LongTrack),
      DualResult(TRUE, LongTrack, LongMood),
      DualResultWithRecs(TRUE, LongTrack, LongMood, <<>>),
      DualResultWithRecs(TRUE, LongTrack, LongMood, LongTrack),
      DualResult(TRUE, LongTrack, <<>>),
      DualResultWithRecs(TRUE, LongTrack, <<>>, LongTrack) }

Raised == [raised |-> TRUE]
Returned(result) == [raised |-> FALSE, result |-> result]

recommend(query, preference_mode, n) ==
    {Raised} \cup {Returned(r) : r \in EngineResults}

(***************************************************************************)
(* What the search action leaves in the session store.                     *)
(***************************************************************************)
results_cleared_on_raise(prev, outcome) ==
    IF outcome.raised THEN None ELSE outcome.result

\* search_results is assigned only after recommend has returned
results_after_search(prev, outcome) ==
    IF outcome.raised THEN prev ELSE outcome.result

movies_cleared_on_failure(prev, outcome, n) ==
    IF outcome.raised \/ flatten_raises(outcome.result)
    THEN <<>>
    ELSE build_all_movies(outcome.result, n)

\* all_movies_list is assigned only when the whole try block has run
movies_after_search(prev, outcome, n) ==
    IF outcome.raised \/ flatten_raises(outcome.result)
    THEN prev
    ELSE build_all_movies(outcome.result, n)

search_outcome(outcome) ==
    IF outcome.raised THEN "engine_raised"
    ELSE IF flatten_raises(outcome.result) THEN "flatten_raised"
    ELSE "ok"

(***************************************************************************)
(* The result display of the search page.                                  *)
(***************************************************************************)
display_top_n_slider(slider, stored) == slider

\* the local top_n (the slider's value) is overwritten by the stored one
display_top_n(slider, stored) ==
    IF stored = <<>> THEN DefaultTopN ELSE stored[1]

\* display_movie_row returns (index, movie.movie_title, movie); the row shows the first two
rows(track, start) == [i \in 1..Len(track) |-> <<start + i - 1, track[i].movie_title>>]

\* the dropdown's entries, "idx. title" for idx, title, _ in all_movies_list
options(movies) == [i \in 1..Len(movies) |-> <<movies[i][1], movies[i][2]>>]

\* prefill: <<the values the profile form's widgets start with>> on the profile page
Rendering(view, error, panels, dropdown) ==
    [view |-> view, error |-> error, panels |-> panels, dropdown |-> dropdown,
     prefill |-> <<>>]

display(results, movies, stored, slider, search_clicked, error) ==
    IF results = None
    THEN Rendering(IF search_clicked THEN "blank" ELSE "info", error, <<>>, <<>>)
    ELSE LET n == display_top_n(slider, stored) IN
         IF "recommendations" \notin DOMAIN results
         THEN Rendering("crash", error, <<>>, <<>>)   \* AttributeError, uncaught
         ELSE IF results.recommendations = <<>>
         THEN Rendering("no_movies", error, <<>>, <<>>)
         ELSE Rendering("results", error,
                        IF is_dual(results)
                        THEN LET entity == Take(results.entity_track, n)
                             IN  rows(entity, 1)
                                 \o rows(Take(results.mood_track, n), Len(entity) + 1)
                        ELSE rows(Take(results.recommendations, n), 1),
                        options(movies))

\* as route, with no else branch
route_known_only(p) == p

\* main: an unknown page identifier is routed to the welcome page
route(p) == IF p \in Pages THEN p ELSE "welcome"

\* what a run that ends on page p renders
render(p, results, movies, stored, slider, search_clicked, error) ==
    IF route(p) = "search"
    THEN display(results, movies, stored, slider, search_clicked, error)
    ELSE Rendering(route(p), FALSE, <<>>, <<>>)

\* call: <<>> when the run called recommend not at all, else <<what the call did>>
\* slider: <<the slider's position>> in a run started by a settings change
\* form: <<the fields of the form>> in a run of the signup or the login page
\* engine: <<the engine instance recommend was called on>> in a run that called it
\* query: <<the text of the query box>> in a run started by the Search button
Event(action, outcome, call) ==
    [action |-> action, outcome |-> outcome, call |-> call, slider |-> <<>>, form |-> <<>>,
     engine |-> <<>>, query |-> <<>>]

FormEvent(action, email, password, verify_password) ==
    [Event(action, "none", <<>>) EXCEPT
        !.form = <<[email |-> email, password |-> password,
                    verify_password |-> verify_password]>>]

(***************************************************************************)
(* The inputs the user types or picks.                                     *)
(***************************************************************************)
E_Valid == <<"a","@","b",".","c","o">>
E_ShortTld == <<"a","@","b",".","c">>
E_NoAt == <<"n","o","t","-","a","n","-","e","m","a","i","l">>
EmailInputs == {<<>>, E_Valid, E_ShortTld, E_NoAt}

P_abc == <<"a","b","c">>
P_abcdef == <<"a","b","c","d","e","f">>
P_abcdeg == <<"a","b","c","d","e","g">>
PasswordInputs == {<<>>, P_abc, P_abcdef, P_abcdeg}

\* the fields as they stand in the runs in which the user is still typing:
\* filled in and valid, and one form for each way of being incomplete or invalid
Fields(email, password, verify_password) ==
    [email |-> email, password |-> password, verify_password |-> verify_password]

SignupFormsTyped ==
    { Fields(<<>>, <<>>, <<>>),
      Fields(E_Valid, P_abcdef, <<>>),
      Fields(E_Valid, P_abcdef, P_abcdef),
      Fields(E_Valid, P_abc, P_abc),
      Fields(E_Valid, P_abcdef, P_abcdeg),
      Fields(E_NoAt, P_abcdef, P_abcdef),
      Fields(E_ShortTld, P_abc, P_abcdef) }

LoginFormsTyped ==
    { Fields(<<>>, <<>>, <<>>),
      Fields(E_Valid, <<>>, <<>>),
      Fields(E_Valid, P_abc, <<>>),
      Fields(E_NoAt, P_abc, <<>>) }

NameInputs == {"", "Ann"}
CityInputs == {""}

\* the text in the query box when Search is clicked
QueryInputs == {"", "sci-fi movies from the 80s", example_queries[1]}

\* the slider's positions
SliderInputs ==
    {n \in TopNMin..TopNMax : n <= TopNMin + TopNSpan \/ n = DefaultTopN}

(***************************************************************************)
(* Session store helpers.                                                  *)
(***************************************************************************)
\* d.get(k, default)
dict_get(d, k, default) == IF k \in DOMAIN d THEN d[k] ELSE default

\* d.update(upd); d[k] = v is the update by a one-key dict
dict_update(d, upd) ==
    [k \in DOMAIN d \cup DOMAIN upd |-> IF k \in DOMAIN upd THEN upd[k] ELSE d[k]]

\* as load_recommender, without the cache decorator
load_recommender_uncached(cache, n) ==
    [recommender |-> <<n + 1>>, constructed |-> n + 1]

\* @st.cache_resource: the body runs when the process's cache entry is
\* empty, and its return value is the entry from then on.  An engine
\* instance is named by the number of its construction.
load_recommender(cache, n) ==
    IF cache # <<>>
    THEN [recommender |-> cache, constructed |-> n]
    ELSE [recommender |-> <<n + 1>>, constructed |-> n + 1]

\* a run of the search page that gets as far as `recommender = load_recommender()`
LoadRecommender ==
    LET loaded == load_recommender(recommender, constructed)
    IN  recommender' = loaded.recommender /\ constructed' = loaded.constructed

\* a run that ends before that line, or on another page
NoLoad == UNCHANGED processVars

\* the values the widgets of the profile form start with: the two name
\* inputs take theirs from user_info, the select boxes start at index 0
\* (the empty option) and the other text inputs are given no value
profile_widgets(info) ==
    [first_name |-> dict_get(info, "first_name", ""),
     last_name |-> dict_get(info, "last_name", ""),
     dob_day |-> "", dob_month |-> "", dob_year |-> "", gender |-> "",
     phone_code |-> "", phone_number |-> "", city |-> "", state |-> "", country |-> ""]

\* navigate_to(target): set the page and rerun; the rerun renders the target page
navigate_to(target) ==
    /\ page' = target
    /\ shown' = LET rendering == render(target, search_results', all_movies_list', top_n',
                                        DefaultTopN, FALSE, FALSE)
                IN  IF route(target) = "profile"
                    THEN [rendering EXCEPT !.prefill = <<profile_widgets(user_info')>>]
                    ELSE rendering
    /\ IF route(target) = "search" THEN LoadRecommender ELSE NoLoad

\* a run of the script leaves the harnesses of the pure functions alone
SessionStep == UNCHANGED <<flatVars, lookupVars, formVars>>

searchStore == <<search_results, all_movies_list, last_query, query_input, top_n, search_time>>

(***************************************************************************)
(* Welcome, authentication menu, signup, login, profile.                   *)
(***************************************************************************)
GetStarted ==
    /\ route(page) = "welcome"
    /\ SessionStep
    /\ UNCHANGED profile_entered
    /\ run' = Event("get_started", "none", <<>>)
    /\ UNCHANGED <<searchStore, user_info, logged_in, appearance>>
    /\ navigate_to("auth_menu")

AuthMenuChoose(target) ==
    /\ route(page) = "auth_menu"
    /\ target \in {"login", "signup", "welcome"}
    /\ SessionStep
    /\ UNCHANGED profile_entered
    /\ run' = Event("auth_menu", "none", <<>>)
    /\ UNCHANGED <<searchStore, user_info, logged_in, appearance>>
    /\ navigate_to(target)

NoError == "no error"

\* as signup_error, the length looked at before the confirmation
signup_error_length_first(email, password, verify_password) ==
    IF email # <<>> /\ ~validate_email(email)
    THEN "Please enter a valid email address."
    ELSE IF password # <<>> /\ Len(password) < MinPasswordLen
    THEN "Password must be at least 6 characters."
    ELSE IF password # <<>> /\ verify_password # <<>> /\ password # verify_password
    THEN "Passwords do not match."
    ELSE NoError

signup_error(email, password, verify_password) ==
    IF email # <<>> /\ ~validate_email(email)
    THEN "Please enter a valid email address."
    ELSE IF password # <<>> /\ verify_password # <<>> /\ password # verify_password
    THEN "Passwords do not match."
    ELSE IF password # <<>> /\ Len(password) < MinPasswordLen
    THEN "Password must be at least 6 characters."
    ELSE NoError

\* as can_create, error_msg not looked at
can_create_fields_present(email, password, verify_password) ==
    email # <<>> /\ password # <<>> /\ verify_password # <<>>

can_create(email, password, verify_password) ==
    /\ email # <<>> /\ password # <<>> /\ verify_password # <<>>
    /\ signup_error(email, password, verify_password) = NoError

SignupBack ==
    /\ route(page) = "signup"
    /\ SessionStep
    /\ UNCHANGED profile_entered
    /\ run' = Event("signup_back", "none", <<>>)
    /\ UNCHANGED <<searchStore, user_info, logged_in, appearance>>
    /\ navigate_to("auth_menu")

\* a field of the signup form is edited: a run with no button clicked, which
\* shows error_msg when there is one
SignupEdit(email, password, verify_password) ==
    /\ route(page) = "signup"
    /\ SessionStep
    /\ UNCHANGED profile_entered
    /\ run' = FormEvent("signup_edit", email, password, verify_password)
    /\ UNCHANGED <<page, searchStore, user_info, logged_in, appearance>>
    /\ shown' = Rendering("signup", signup_error(email, password, verify_password) # NoError,
                          <<>>, <<>>)
    /\ NoLoad

SignupCreate(email, password, verify_password) ==
    /\ route(page) = "signup"
    /\ can_create(email, password, verify_password)   \* the button is disabled otherwise
    /\ user_info' = dict_update(user_info, [email |-> email])
    /\ logged_in' = TRUE
    /\ SessionStep
    /\ UNCHANGED profile_entered
    /\ run' = FormEvent("signup", email, password, verify_password)
    /\ UNCHANGED <<searchStore, appearance>>
    /\ navigate_to("profile")

login_error(email) ==
    IF email # <<>> /\ ~validate_email(email)
    THEN "Please enter a valid email address."
    ELSE NoError

\* as can_login, error_msg not looked at
can_login_fields_present(email, password) ==
    email # <<>> /\ password # <<>>

can_login(email, password) ==
    email # <<>> /\ password # <<>> /\ login_error(email) = NoError

LoginBack ==
    /\ route(page) = "login"
    /\ SessionStep
    /\ UNCHANGED profile_entered
    /\ run' = Event("login_back", "none", <<>>)
    /\ UNCHANGED <<searchStore, user_info, logged_in, appearance>>
    /\ navigate_to("auth_menu")

\* a field of the login form is edited: a run with no button clicked
LoginEdit(email, password) ==
    /\ route(page) = "login"
    /\ SessionStep
    /\ UNCHANGED profile_entered
    /\ run' = FormEvent("login_edit", email, password, <<>>)
    /\ UNCHANGED <<page, searchStore, user_info, logged_in, appearance>>
    /\ shown' = Rendering("login", login_error(email) # NoError, <<>>, <<>>)
    /\ NoLoad

\* as LoginSubmit, going on to the search page
LoginSubmit_to_search(email, password) ==
    /\ route(page) = "login"
    /\ can_login(email, password)
    /\ user_info' = dict_update(user_info, [email |-> email])
    /\ logged_in' = TRUE
    /\ SessionStep
    /\ UNCHANGED profile_entered
    /\ run' = FormEvent("login", email, password, <<>>)
    /\ UNCHANGED <<searchStore, appearance>>
    /\ navigate_to("search")

LoginSubmit(email, password) ==
    /\ route(page) = "login"
    /\ can_login(email, password)   \* the button is disabled otherwise
    /\ user_info' = dict_update(user_info, [email |-> email])
    /\ logged_in' = TRUE
    /\ SessionStep
    /\ UNCHANGED profile_entered
    /\ run' = FormEvent("login", email, password, <<>>)
    /\ UNCHANGED <<searchStore, appearance>>
    /\ navigate_to("profile")

\* as ProfileBack, going back to the welcome page
ProfileBack_to_welcome ==
    /\ route(page) = "profile"
    /\ SessionStep
    /\ UNCHANGED profile_entered
    /\ run' = Event("profile_back", "none", <<>>)
    /\ UNCHANGED <<searchStore, user_info, logged_in, appearance>>
    /\ navigate_to("welcome")

ProfileBack ==
    /\ route(page) = "profile"
    /\ SessionStep
    /\ UNCHANGED profile_entered
    /\ run' = Event("profile_back", "none", <<>>)
    /\ UNCHANGED <<searchStore, user_info, logged_in, appearance>>
    /\ navigate_to("auth_menu")

\* the select boxes and the other text inputs are left at their initial ''
profile_form(first_name, city) ==
    [first_name |-> first_name, last_name |-> "", dob_day |-> "", dob_month |-> "",
     dob_year |-> "", gender |-> "", phone_code |-> "", phone_number |-> "",
     city |-> city, state |-> "", country |-> ""]

ProfileNext(first_name, city) ==
    /\ route(page) = "profile"
    /\ user_info' = dict_update(user_info, profile_form(first_name, city))
    /\ profile_entered' = <<profile_form(first_name, city)>>
    /\ SessionStep
    /\ run' = Event("profile_next", "none", <<>>)
    /\ UNCHANGED <<searchStore, logged_in, appearance>>
    /\ navigate_to("search")

(***************************************************************************)
(* The search page.  slider is the position of the "Results per Track"     *)
(* slider during the run.                                                  *)
(***************************************************************************)
\* the appearance select box differs from the stored appearance: store it and rerun
ChangeAppearance(a, slider) ==
    /\ route(page) = "search"
    /\ a # appearance
    /\ appearance' = a
    /\ SessionStep
    /\ UNCHANGED profile_entered
    /\ run' = Event("appearance", "none", <<>>)
    /\ UNCHANGED <<page, searchStore, user_info, logged_in>>
    /\ shown' = render(page, search_results, all_movies_list, top_n, slider, FALSE, FALSE)
    /\ LoadRecommender

\* the preference mode, the slider or the query text is changed: a run with no button clicked
ChangeSettings(slider) ==
    /\ route(page) = "search"
    /\ SessionStep
    /\ UNCHANGED profile_entered
    /\ run' = [Event("settings", "none", <<>>) EXCEPT !.slider = <<slider>>]
    /\ UNCHANGED <<page, searchStore, user_info, logged_in, appearance>>
    /\ shown' = render(page, search_results, all_movies_list, top_n, slider, FALSE, FALSE)
    /\ LoadRecommender

\* an entry of the "Choose a movie" dropdown is picked: a run with no button
\* clicked, which reads the store and shows the details below the results
SelectMovie(slider) ==
    /\ route(page) = "search"
    /\ display(search_results, all_movies_list, top_n, slider, FALSE, FALSE).dropdown # <<>>
    /\ SessionStep
    /\ UNCHANGED profile_entered
    /\ run' = Event("select", "none", <<>>)
    /\ UNCHANGED <<page, searchStore, user_info, logged_in, appearance>>
    /\ shown' = render(page, search_results, all_movies_list, top_n, slider, FALSE, FALSE)
    /\ LoadRecommender

\* an example query button: no rerun, the run goes on to the display
ExampleQuery(i, slider) ==
    /\ route(page) = "search"
    /\ query_input' = <<example_queries[i]>>
    /\ search_results' = None
    /\ all_movies_list' = <<>>
    /\ SessionStep
    /\ UNCHANGED profile_entered
    /\ run' = Event("example", "none", <<>>)
    /\ UNCHANGED <<page, last_query, top_n, search_time, user_info, logged_in, appearance>>
    /\ shown' = render(page, search_results', all_movies_list', top_n, slider, FALSE, FALSE)
    /\ LoadRecommender

Logout ==
    /\ route(page) = "search"
    /\ logged_in' = FALSE
    /\ user_info' = <<>>
    /\ search_results' = None
    /\ SessionStep
    /\ UNCHANGED profile_entered
    /\ run' = Event("logout", "none", <<>>)
    /\ UNCHANGED <<all_movies_list, last_query, query_input, top_n, search_time, appearance>>
    /\ navigate_to("welcome")

\* random.choice(example_queries), then rerun
Random(i, slider) ==
    /\ route(page) = "search"
    /\ query_input' = <<example_queries[i]>>
    /\ search_results' = None
    /\ all_movies_list' = <<>>
    /\ SessionStep
    /\ UNCHANGED profile_entered
    /\ run' = Event("random", "none", <<>>)
    /\ UNCHANGED <<page, last_query, top_n, search_time, user_info, logged_in, appearance>>
    /\ shown' = render(page, search_results', all_movies_list', top_n, slider, FALSE, FALSE)
    /\ LoadRecommender

\* as recommend_calls, an invocation that raised made once more
recommend_calls_retried(search_clicked, query, outcome) ==
    IF search_clicked /\ query # ""
    THEN IF outcome.raised THEN <<outcome, outcome>> ELSE <<outcome>>
    ELSE <<>>

\* the recommend invocations of a run, in order: `if search_clicked and query`
\* guards the one call site, which is in no loop
recommend_calls(search_clicked, query, outcome) ==
    IF search_clicked /\ query # "" THEN <<outcome>> ELSE <<>>

\* the Search button with an empty query box: `search_clicked and query` is false
SearchEmpty(slider) ==
    /\ route(page) = "search"
    /\ SessionStep
    /\ UNCHANGED profile_entered
    /\ run' = [Event("search", "not_run", <<>>) EXCEPT !.query = <<"">>]
    /\ UNCHANGED <<page, searchStore, user_info, logged_in, appearance>>
    /\ shown' = render(page, search_results, all_movies_list, top_n, slider, TRUE, FALSE)
    /\ LoadRecommender

\* the Search button with a query: one recommend call, then the flattening, then the display
Search(query, slider, outcome) ==
    /\ route(page) = "search"
    /\ query # ""
    /\ outcome \in UNION {recommend(query, m, slider) : m \in PreferenceModes}
    /\ search_results' = results_after_search(search_results, outcome)
    /\ last_query' = IF outcome.raised THEN last_query ELSE query
    /\ search_time' = IF outcome.raised THEN search_time ELSE <<"elapsed">>
    /\ top_n' = IF outcome.raised THEN top_n ELSE <<slider>>
    /\ all_movies_list' = movies_after_search(all_movies_list, outcome, slider)
    /\ SessionStep
    /\ UNCHANGED profile_entered
    /\ LoadRecommender
    /\ run' = [Event("search", search_outcome(outcome),
                     recommend_calls(TRUE, query, outcome)) EXCEPT
                  !.engine = recommender', !.query = <<query>>]
    /\ UNCHANGED <<page, query_input, user_info, logged_in, appearance>>
    /\ shown' = render(page, search_results', all_movies_list', top_n', slider, TRUE,
                       search_outcome(outcome) # "ok")

(***************************************************************************)
(* The session's specification.                                            *)
(***************************************************************************)
FlattenIdle == flat_in = <<>> /\ flat_out = <<>>
LookupIdle == catalog = <<>> /\ lookup_title = <<>> /\ lookup_out = <<>>
FormIdle == form_in = <<>> /\ form_out = <<>>

\* a process that has just been launched
ProcessStart == recommender = <<>> /\ constructed = 0

\* the first run of a new session: init_session_state, then the welcome page
SessionStart ==
    /\ init_session_state
    /\ run = Event("start", "none", <<>>)
    /\ shown = render("welcome", None, <<>>, <<>>, DefaultTopN, FALSE, FALSE)
    /\ profile_entered = <<>>

Init == SessionStart /\ ProcessStart /\ FlattenIdle /\ LookupIdle /\ FormIdle

Outcomes == UNION {recommend(q, m, s) : q \in QueryInputs, m \in PreferenceModes, s \in SliderInputs}
Examples == 1..Min(MaxExample, Len(example_queries))

Next ==
    \/ GetStarted
    \/ \E target \in Pages : AuthMenuChoose(target)
    \/ SignupBack
    \/ \E f \in SignupFormsTyped : SignupEdit(f.email, f.password, f.verify_password)
    \/ \E e \in EmailInputs, p \in PasswordInputs, v \in PasswordInputs : SignupCreate(e, p, v)
    \/ LoginBack
    \/ \E f \in LoginFormsTyped : LoginEdit(f.email, f.password)
    \/ \E e \in EmailInputs, p \in PasswordInputs : LoginSubmit(e, p)
    \/ ProfileBack
    \/ \E f \in NameInputs, c \in CityInputs : ProfileNext(f, c)
    \/ \E a \in Appearances, s \in SliderInputs : ChangeAppearance(a, s)
    \/ \E s \in SliderInputs : ChangeSettings(s)
    \/ \E s \in SliderInputs : SelectMovie(s)
    \/ \E i \in Examples, s \in SliderInputs : ExampleQuery(i, s)
    \/ Logout
    \/ \E i \in Examples, s \in SliderInputs : Random(i, s)
    \/ \E s \in SliderInputs : SearchEmpty(s)
    \/ \E q \in QueryInputs, s \in SliderInputs, o \in Outcomes : Search(q, s, o)

Spec == Init /\ [][Next]_vars

(***************************************************************************)
(* One process serving one browser session after another.                  *)
(***************************************************************************)
\* a browser connects: the script's first run for a new session, whose
\* store is empty until init_session_state fills it; the process's cache is
\* not the session's
NewSession ==
    /\ page' = "welcome"
    /\ search_results' = None
    /\ all_movies_list' = <<>>
    /\ last_query' = ""
    /\ user_info' = <<>>
    /\ logged_in' = FALSE
    /\ appearance' = "dark"
    /\ query_input' = <<>>
    /\ top_n' = <<>>
    /\ search_time' = <<>>
    /\ run' = Event("start", "none", <<>>)
    /\ shown' = render("welcome", None, <<>>, <<>>, DefaultTopN, FALSE, FALSE)
    /\ profile_entered' = <<>>
    /\ NoLoad
    /\ SessionStep

NextProcess ==
    \/ Next
    \/ NewSession

SpecProcess == Init /\ [][NextProcess]_vars

(***************************************************************************)
(* The session started with an unrecognised identifier in                  *)
(* st.session_state.page (init_session_state leaves a key that is present  *)
(* alone).                                                                 *)
(***************************************************************************)
UnknownPages == {"", "home", "Search", "results"}

RouterInit ==
    /\ page \in UnknownPages
    /\ search_results = None
    /\ all_movies_list = <<>>
    /\ last_query = ""
    /\ user_info = <<>>
    /\ logged_in = FALSE
    /\ appearance = "dark"
    /\ query_input = <<>>
    /\ top_n = <<>>
    /\ search_time = <<>>
    /\ run = Event("start", "none", <<>>)
    /\ shown = render(page, None, <<>>, <<>>, DefaultTopN, FALSE, FALSE)
    /\ profile_entered = <<>>
    /\ ProcessStart /\ FlattenIdle /\ LookupIdle /\ FormIdle

SpecRouter == RouterInit /\ [][Next]_vars

(***************************************************************************)
(* Claims about the session.                                               *)
(***************************************************************************)
\* a run that clicked Search with a query in the box
Submitted(r) == r.action = "search" /\ r.call # <<>>

\* §4.4's flattening of a stored result; a result without `recommendations`
\* has nothing to take in the single-track variant
flattening(result, n) ==
    IF flatten_raises(result) THEN <<>> ELSE build_all_movies(result, n)

\* C1: when recommend raises during a Search action, search_results,
\* all_movies_list and page are what they were before the action, and the
\* run shows an error.
C1_RaiseKeepsSession ==
    [][ (Submitted(run') /\ run'.call[1].raised)
        => /\ search_results' = search_results
           /\ all_movies_list' = all_movies_list
           /\ page' = page
           /\ shown'.error ]_vars

\* a search that raised in the engine while an earlier result was stored
C1_Witness ==
    /\ Submitted(run) /\ run.call[1].raised
    /\ search_results # None /\ all_movies_list # <<>>
    /\ page = "search" /\ shown.error

\* C2: all_movies_list is empty whenever search_results is empty.
C2_MoviesEmptyWithoutResults ==
    search_results = None => all_movies_list = <<>>

\* C3: whenever search_results is non-empty, all_movies_list is the
\* flattening of the stored search_results with the stored top_n.
C3_MoviesAreFlattenedResults ==
    search_results # None
        => top_n # <<>> /\ all_movies_list = flattening(search_results, top_n[1])

\* C4 as claimed: a Search action with a query always discards the prior
\* search_results and all_movies_list: each is either the value this
\* submission produced or at least no longer the prior value.
C4_SubmitAlwaysReplaces ==
    [][ Submitted(run')
        => LET call == run'.call[1] IN
           /\ search_results # None
                => \/ search_results' # search_results
                   \/ ~call.raised /\ search_results' = call.result
           /\ all_movies_list # <<>>
                => \/ all_movies_list' # all_movies_list
                   \/ ~call.raised
                        /\ all_movies_list' = flattening(call.result, top_n'[1]) ]_vars

\* C4 as amended: the submission replaces search_results by the engine's
\* result when recommend returns, and all_movies_list by that result's
\* flattening when the flattening completes too; when recommend raises both
\* keep their prior values, and when the flattening raises all_movies_list
\* keeps its prior value.
C4_SubmitReplacesOnReturn ==
    [][ Submitted(run')
        => LET call == run'.call[1] IN
           IF call.raised
           THEN search_results' = search_results /\ all_movies_list' = all_movies_list
           ELSE /\ search_results' = call.result
                /\ top_n' # <<>>
                /\ IF "recommendations" \in DOMAIN call.result \/ is_dual(call.result)
                   THEN all_movies_list' = build_all_movies(call.result, top_n'[1])
                   ELSE all_movies_list' = all_movies_list ]_vars

\* a submission that returned, stored its result and its flattened list
C4_Witness ==
    /\ Submitted(run) /\ ~run.call[1].raised
    /\ search_results = run.call[1].result
    /\ all_movies_list # <<>>
    /\ all_movies_list = build_all_movies(search_results, top_n[1])
    /\ last_query # ""

\* C8: whenever results are rendered, the dropdown offers exactly the
\* (rank, title) pairs the result panels show.
C8_DropdownMatchesPanels ==
    shown.view = "results" => shown.dropdown = shown.panels

\* results rendered after the slider was moved below the stored top_n,
\* with no new search, on tracks longer than the slider's position
C8_Witness ==
    /\ run.action = "settings"
    /\ shown.view = "results"
    /\ run.slider[1] < top_n[1]
    /\ Len(shown.panels) > run.slider[1]
    /\ shown.dropdown = shown.panels

\* the fields of the form of the run r
Form(r) == r.form[1]

storeVars == <<page, search_results, all_movies_list, last_query, user_info, logged_in,
               appearance, query_input, top_n, search_time>>

\* C15: the signup transition (logged_in := true, the e-mail stored, page :=
\* profile) occurs only with an e-mail that passes validate_email and a
\* password of at least 6 characters equal to its confirmation; the login
\* transition only with an e-mail that passes validate_email and a non-empty
\* password; a run of either form that reports a violation or misses a field
\* changes nothing in the session store.
C15_SubmitOnlyWhenValid ==
    [][ /\ (page = "signup" /\ page' = "profile")
            => /\ run'.form # <<>>
               /\ validate_email(Form(run').email)
               /\ Len(Form(run').password) >= 6
               /\ Form(run').password = Form(run').verify_password
               /\ logged_in' = TRUE
               /\ user_info'.email = Form(run').email
        /\ (page = "login" /\ page' = "profile")
            => /\ run'.form # <<>>
               /\ validate_email(Form(run').email)
               /\ Form(run').password # <<>>
               /\ logged_in' = TRUE
               /\ user_info'.email = Form(run').email
        /\ (logged_in' /\ ~logged_in) => (page \in {"signup", "login"} /\ page' = "profile")
        /\ (page = "signup" /\ run'.form # <<>>
               /\ \/ ~validate_email(Form(run').email)
                  \/ Len(Form(run').password) < 6
                  \/ Form(run').password # Form(run').verify_password)
            => UNCHANGED storeVars
        /\ (page = "login" /\ run'.form # <<>>
               /\ \/ ~validate_email(Form(run').email)
                  \/ Form(run').password = <<>>)
            => UNCHANGED storeVars ]_vars

\* an account created with a six-character password and its confirmation
C15_Witness ==
    /\ run.action = "signup"
    /\ Form(run).email = E_Valid
    /\ Form(run).password = P_abcdef /\ Form(run).verify_password = P_abcdef
    /\ logged_in /\ page = "profile"
    /\ user_info.email = E_Valid

\* C16 as claimed: the search page is reached directly from the login page
\* and from the signup page (by their submit buttons, the one way forward
\* from either), and logout on the search page leads to the welcome page.
C16_SearchDirectlyFromLogin ==
    [][ /\ run'.action \in {"login", "signup"} => page' = "search"
        /\ run'.action = "logout" => (page = "search" /\ page' = "welcome") ]_vars

\* C16 as amended: the search page is entered only from the profile page;
\* the submit buttons of the login and the signup page lead to the profile
\* page, no step from either leads to the search page, and logout on the
\* search page leads to the welcome page.
C16_SearchOnlyFromProfile ==
    [][ /\ (page' = "search" /\ page # "search") => page = "profile"
        /\ page \in {"login", "signup"} => page' # "search"
        /\ run'.action \in {"login", "signup"}
              => (page \in {"login", "signup"} /\ page' = "profile")
        /\ run'.action = "logout" => (page = "search" /\ page' = "welcome") ]_vars

\* logged out to the welcome page after a search
C16_Witness ==
    /\ run.action = "logout"
    /\ page = "welcome"
    /\ ~logged_in
    /\ last_query # ""

\* the edges of the page flow
FlowEdges ==
    { <<"welcome", "auth_menu">>,
      <<"auth_menu", "login">>, <<"auth_menu", "signup">>, <<"auth_menu", "welcome">>,
      <<"login", "profile">>, <<"login", "auth_menu">>,
      <<"signup", "profile">>, <<"signup", "auth_menu">>,
      <<"profile", "search">>, <<"profile", "auth_menu">>,
      <<"search", "welcome">> }

\* the runs started by a click on a navigation button
ButtonRuns ==
    {"get_started", "auth_menu", "signup", "signup_back", "login", "login_back",
     "profile_next", "profile_back", "logout"}

\* C17: the page is always one of the six identifiers; it changes only in a
\* run started by a button and only along an edge of the flow; and on the
\* search page every run but a logout leaves the page at search.
C17_PageFollowsFlow ==
    /\ [](page \in {"welcome", "auth_menu", "signup", "login", "profile", "search"})
    /\ [][ /\ page' # page => (<<page, page'>> \in FlowEdges /\ run'.action \in ButtonRuns)
           /\ (page = "search" /\ run'.action # "logout") => page' = "search" ]_vars

\* still on the search page after a search that failed in the engine
C17_Witness ==
    /\ page = "search"
    /\ run.action = "search" /\ run.outcome = "engine_raised"

KnownPages == {"welcome", "auth_menu", "signup", "login", "profile", "search"}

\* C18: with a page identifier outside the six known ones the run renders
\* the welcome page and no error, and the only step there is leads to
\* auth_menu (the welcome page's Get Started button).
C18_UnknownPageIsWelcome ==
    /\ [](page \notin KnownPages => (shown.view = "welcome" /\ ~shown.error))
    /\ [][ page \notin KnownPages
             => (page' = "auth_menu" /\ run'.action = "get_started") ]_vars

\* a run with an unrecognised page identifier, the welcome page rendered
C18_Witness ==
    /\ page \notin KnownPages
    /\ shown.view = "welcome"
    /\ ~shown.error

\* C19: immediately after the logout action the session has logged_in =
\* false, an empty user_info, page = welcome, empty search_results, an empty
\* all_movies_list and an empty last_query.
C19_LogoutClearsStore ==
    [][ run'.action = "logout"
          => /\ logged_in' = FALSE
             /\ user_info' = <<>>
             /\ page' = "welcome"
             /\ search_results' = None
             /\ all_movies_list' = <<>>
             /\ last_query' = "" ]_vars

\* C20: whatever the sessions of the process do, at most one engine is ever
\* constructed; a run that calls recommend calls it on the engine the cache
\* holds, which has been constructed by then; and once the cache holds an
\* engine it holds that one for good.
C20_EngineConstructedOnce ==
    /\ [](constructed <= 1)
    /\ [][ /\ run'.engine # <<>>
               => (constructed' >= 1 /\ recommender' # <<>> /\ run'.engine = recommender')
           /\ recommender # <<>>
               => (recommender' = recommender /\ constructed' = constructed) ]_vars

\* a new session starts in a process whose engine an earlier session's
\* search page has constructed
C20_Witness ==
    /\ run.action = "start"
    /\ page = "welcome" /\ ~logged_in
    /\ recommender = <<1>>
    /\ constructed = 1

\* C21: a run started by the Search button with a query in the box makes
\* exactly one recommend invocation, one started with the box empty makes
\* none, and no other run makes one; so after an invocation that failed the
\* next invocation is that of another Search run.
C21_OneCallPerSearch ==
    [][ /\ (run'.action = "search" /\ run'.query # <<"">>) => Len(run'.call) = 1
        /\ (run'.action = "search" /\ run'.query = <<"">>) => Len(run'.call) = 0
        /\ run'.action # "search" => Len(run'.call) = 0
        /\ (run.call # <<>> /\ run.call[1].raised /\ run'.call # <<>>)
              => (run'.action = "search" /\ run'.query # <<"">> /\ Len(run'.call) = 1) ]_vars

\* a Search run whose one invocation failed
C21_Witness ==
    /\ run.action = "search"
    /\ run.query # <<>> /\ run.query[1] # ""
    /\ Len(run.call) = 1
    /\ run.call[1].raised
    /\ shown.error

\* C22: whenever the profile page is shown after profile values were
\* submitted earlier in the same browser session, its form starts with
\* those values.
C22_ProfilePrefilled ==
    (page = "profile" /\ profile_entered # <<>>)
        => (shown.prefill # <<>> /\ shown.prefill[1] = profile_entered[1])

\* C24: whenever the search page is shown with a stored result that is
\* dual-track (flag set, both tracks non-empty), the two track panels and a
\* non-empty detail dropdown are rendered, whatever `recommendations` holds
\* or whether the result has it; and results rendered for a stored result
\* that is not dual-track (the flag set but a track empty, say) are the
\* single-track panel.
C24_DualTrackRendered ==
    (page = "search" /\ search_results # None)
        => LET n == display_top_n(0, top_n) IN
           IF is_dual(search_results)
           THEN LET entity == Take(search_results.entity_track, n) IN
                /\ shown.view = "results"
                /\ shown.panels = rows(entity, 1)
                                    \o rows(Take(search_results.mood_track, n), Len(entity) + 1)
                /\ shown.dropdown # <<>>
                /\ shown.dropdown = options(all_movies_list)
           ELSE shown.view = "results"
                    => shown.panels = rows(Take(search_results.recommendations, n), 1)

\* C25: whenever the page is profile or search, logged_in is true and
\* user_info holds an email that passes validate_email; and the two pages
\* are entered only through a login or signup submission: the profile page
\* in the run of an enabled Log In or Create Account button, which stores
\* the form's email and sets logged_in, the search page from the profile
\* page, while Log Out clears logged_in and user_info and leaves for the
\* welcome page, so that none is reached after it without a new submission.
C25_AuthenticatedPages ==
    /\ [](page \in {"profile", "search"}
            => /\ logged_in
               /\ "email" \in DOMAIN user_info
               /\ validate_email(user_info.email))
    /\ [][ /\ (page' = "profile" /\ page # "profile")
               => /\ run'.action \in {"login", "signup"}
                  /\ page \in {"login", "signup"}
                  /\ validate_email(Form(run').email)
                  /\ user_info'.email = Form(run').email
                  /\ logged_in'
           /\ (page' = "search" /\ page # "search")
               => (page = "profile" /\ run'.action = "profile_next" /\ logged_in)
           /\ (logged_in' /\ ~logged_in) => run'.action \in {"login", "signup"}
           /\ run'.action = "logout"
               => (~logged_in' /\ user_info' = <<>> /\ page' = "welcome") ]_vars

\* the profile page entered by a login after a logout that followed a first
\* login and a search
C25_Witness ==
    /\ page = "profile"
    /\ run.action = "login"
    /\ logged_in
    /\ validate_email(user_info.email)
    /\ last_query # ""

(***************************************************************************)
(* The flattening on its own: every shape of result (each attribute        *)
(* present or absent, each track of 0..MaxTrackLen entries) with every     *)
(* position of the slider.                                                 *)
(***************************************************************************)
RecTracks == {Track(n, 0, FALSE) : n \in 0..MaxTrackLen}
EntityTracks == {Track(n, 2, FALSE) : n \in 0..MaxTrackLen}
MoodTracks == {Track(n, 1, TRUE) : n \in 0..MaxTrackLen}

ResultAttrs == {"recommendations", "dual_track_mode", "entity_track", "mood_track"}

FlattenResults ==
    { [a \in attrs |-> full[a]] :
        attrs \in SUBSET ResultAttrs,
        full \in [recommendations : RecTracks, dual_track_mode : BOOLEAN,
                  entity_track : EntityTracks, mood_track : MoodTracks] }

FlattenInit ==
    /\ flat_in \in [result : FlattenResults, top_n : TopNMin..TopNMax]
    /\ flat_out = <<>>
    /\ SessionStart /\ ProcessStart /\ LookupIdle /\ FormIdle

\* the flattening of the search action, run on flat_in
Flatten ==
    /\ flat_in # <<>> /\ flat_out = <<>>
    /\ flat_out' = IF flatten_raises(flat_in.result)
                   THEN [raised |-> TRUE]
                   ELSE [raised |-> FALSE,
                         all_movies |-> build_all_movies(flat_in.result, flat_in.top_n)]
    /\ UNCHANGED <<flat_in, sessionVars, lookupVars, formVars, processVars>>

SpecFlatten == FlattenInit /\ [][Flatten]_vars

Flattened == flat_out # <<>> /\ ~flat_out.raised

\* §3's dual-track variant, read off the result's attributes
DualShape(r) ==
    /\ "dual_track_mode" \in DOMAIN r /\ r.dual_track_mode = TRUE
    /\ "entity_track" \in DOMAIN r /\ Len(r.entity_track) > 0
    /\ "mood_track" \in DOMAIN r /\ Len(r.mood_track) > 0

\* C5: the flattened list holds exactly min(top_n, track length) entries of
\* each track, and its ranks are 1..k in order, in both variants.
C5_CountsAndRanks ==
    Flattened =>
        LET r == flat_in.result
            n == flat_in.top_n
            out == flat_out.all_movies
        IN  /\ \A i \in 1..Len(out) : out[i][1] = i
            /\ IF DualShape(r)
               THEN Len(out) = Min(n, Len(r.entity_track)) + Min(n, Len(r.mood_track))
               ELSE Len(out) = Min(n, Len(r.recommendations))

\* a dual-track result whose entity track is cut at top_n and whose mood
\* track is shorter than top_n
C5_Witness ==
    /\ Flattened /\ DualShape(flat_in.result)
    /\ Len(flat_in.result.entity_track) > flat_in.top_n
    /\ Len(flat_in.result.mood_track) < flat_in.top_n
    /\ Len(flat_out.all_movies) = flat_in.top_n + Len(flat_in.result.mood_track)

\* C6: in the dual-track variant the first k1 = min(top_n, |entity_track|)
\* entries are the entity track's, in its order, ranked 1..k1, and the rest
\* are the mood track's first min(top_n, |mood_track|), in its order, ranked
\* from k1+1, whatever the scores.
C6_EntityBeforeMood ==
    (Flattened /\ DualShape(flat_in.result)) =>
        LET r == flat_in.result
            out == flat_out.all_movies
            k1 == Min(flat_in.top_n, Len(r.entity_track))
            k2 == Min(flat_in.top_n, Len(r.mood_track))
        IN  /\ Len(out) = k1 + k2
            /\ \A i \in 1..k1 :
                 out[i] = <<i, r.entity_track[i].movie_title, r.entity_track[i]>>
            /\ \A j \in 1..k2 :
                 out[k1 + j] = <<k1 + j, r.mood_track[j].movie_title, r.mood_track[j]>>

\* a dual-track list, the entity track cut at top_n, whose last mood entry
\* outscores the last entity entry, which is ranked before it
C6_Witness ==
    /\ Flattened /\ DualShape(flat_in.result)
    /\ Len(flat_in.result.entity_track) > flat_in.top_n
    /\ LET out == flat_out.all_movies
       IN  /\ Len(out) > flat_in.top_n
           /\ out[Len(out)][3].final_score > out[flat_in.top_n][3].final_score
           /\ out[flat_in.top_n][3] = flat_in.result.entity_track[flat_in.top_n]
           /\ out[1][3] = flat_in.result.entity_track[1]
           /\ out[Len(out)][3] \in {flat_in.result.mood_track[j] :
                                      j \in 1..Len(flat_in.result.mood_track)}

\* C7: the list is built from the two tracks exactly when dual_track_mode is
\* true and both tracks are non-empty; in every other case the flattening
\* goes to `recommendations` (and raises when the result has none).
C7_DualIffFlagAndBothTracks ==
    flat_out # <<>> =>
        LET r == flat_in.result
            n == flat_in.top_n
        IN  IF DualShape(r)
            THEN /\ ~flat_out.raised
                 /\ \A i \in 1..Len(flat_out.all_movies) :
                      flat_out.all_movies[i][3] =
                        IF i <= Min(n, Len(r.entity_track))
                        THEN r.entity_track[i]
                        ELSE r.mood_track[i - Min(n, Len(r.entity_track))]
            ELSE IF "recommendations" \in DOMAIN r
            THEN /\ ~flat_out.raised
                 /\ Len(flat_out.all_movies) = Min(n, Len(r.recommendations))
                 /\ \A i \in 1..Len(flat_out.all_movies) :
                      flat_out.all_movies[i][3] = r.recommendations[i]
            ELSE flat_out.raised

\* the flag set, the entity track filled, the mood track empty: the list is
\* the (non-empty) `recommendations`
C7_Witness ==
    /\ Flattened
    /\ "dual_track_mode" \in DOMAIN flat_in.result /\ flat_in.result.dual_track_mode
    /\ "entity_track" \in DOMAIN flat_in.result /\ flat_in.result.entity_track # <<>>
    /\ "mood_track" \in DOMAIN flat_in.result /\ flat_in.result.mood_track = <<>>
    /\ flat_out.all_movies # <<>>
    /\ flat_out.all_movies[1][3] = flat_in.result.recommendations[1]

(***************************************************************************)
(* get_movie_details.  A catalog is a sequence of rows; a row is a function *)
(* from the columns it has to cells.  A cell is a Python value: its type,  *)
(* and what the lookup reads of it.                                        *)
(***************************************************************************)
PyNone == [type |-> "NoneType"]
NaN == [type |-> "float", nan |-> TRUE]
PyFloat(x) == [type |-> "float", nan |-> FALSE, v |-> x]
PyInt(x) == [type |-> "int", v |-> x]
PyStr(chars) == [type |-> "str", v |-> chars]
PyList(items) == [type |-> "list", items |-> items]
PyTuple(items) == [type |-> "tuple", items |-> items]

UpperSeq == <<"A","B","C","D","E","F","G","H","I","J","K","L","M",
              "N","O","P","Q","R","S","T","U","V","W","X","Y","Z">>
LowerSeq == <<"a","b","c","d","e","f","g","h","i","j","k","l","m",
              "n","o","p","q","r","s","t","u","v","w","x","y","z">>

lower_char(c) ==
    IF c \in Upper THEN LowerSeq[CHOOSE i \in 1..Len(UpperSeq) : UpperSeq[i] = c] ELSE c

\* str.lower()
lower(chars) == [i \in 1..Len(chars) |-> lower_char(chars[i])]

\* text has pat as a substring
has_substring(text, pat) ==
    \E start \in 0..(Len(text) - Len(pat)) :
        \A k \in 1..Len(pat) : text[start + k] = pat[k]

\* Series.str.contains(pat): pat is a regular expression (regex=True is the
\* default) searched for in text.  Of the regular expression syntax the
\* titles tried hold only `.`, which matches any character but a newline;
\* every other character of them matches itself.
str_contains(text, pat) ==
    \E start \in 0..(Len(text) - Len(pat)) :
        \A k \in 1..Len(pat) :
            IF pat[k] = "." THEN text[start + k] # "\n" ELSE text[start + k] = pat[k]

\* .str.lower() of a title cell is NaN unless the cell is a string; a NaN
\* compares unequal and contains nothing (na=False)
title_equals(row, movie_title) ==
    row["title"].type = "str" /\ lower(row["title"].v) = lower(movie_title)

title_contains_literal(row, movie_title) ==
    row["title"].type = "str" /\ has_substring(lower(row["title"].v), lower(movie_title))

title_contains(row, movie_title) ==
    row["title"].type = "str" /\ str_contains(lower(row["title"].v), lower(movie_title))

\* the rows of match, by position: the exact matches, or, when there is
\* none, the rows containing the title
match_rows(movies_df, movie_title) ==
    LET exact == {i \in 1..Len(movies_df) : title_equals(movies_df[i], movie_title)}
    IN  IF exact # {}
        THEN exact
        ELSE {i \in 1..Len(movies_df) : title_contains(movies_df[i], movie_title)}

\* the position of match.iloc[0]; 0 when match is empty
first_match(movies_df, movie_title) ==
    LET match == match_rows(movies_df, movie_title)
    IN  IF match = {} THEN 0 ELSE CHOOSE i \in match : \A j \in match : i <= j

\* as safe_get, without the NaN test
safe_get_no_nan_test(movie, key, default) ==
    LET val == IF key \in DOMAIN movie THEN movie[key] ELSE default
    IN  IF val.type = "NoneType" THEN default
        ELSE IF val.type \in {"list", "tuple"}
        THEN IF Len(val.items) > 0 THEN val ELSE default
        ELSE val

safe_get(movie, key, default) ==
    LET val == IF key \in DOMAIN movie THEN movie[key] ELSE default
    IN  IF val.type = "NoneType" THEN default
        ELSE IF val.type \in {"list", "tuple"}
        THEN IF Len(val.items) > 0 THEN val ELSE default
        ELSE IF val.type = "float"
        THEN IF val.nan THEN default ELSE val
        ELSE val

S_NA == <<"N","/","A">>
S_NoOverview == <<"N","o"," ","o","v","e","r","v","i","e","w"," ",
                  "a","v","a","i","l","a","b","l","e",".">>

DetailFields == {"title", "year", "directors", "cast", "production_companies",
                 "overview", "genres", "runtime", "vote_average"}

\* as field_default, 'N/A' handed over for the overview too
field_default_overview_na(key, movie_title) ==
    CASE key = "title" -> PyStr(movie_title)
      [] key \in {"year", "runtime", "vote_average", "overview"} -> PyStr(S_NA)
      [] key \in {"directors", "cast", "production_companies", "genres"} -> PyList(<<>>)

\* the default handed to safe_get for each field
field_default(key, movie_title) ==
    CASE key = "title" -> PyStr(movie_title)
      [] key \in {"year", "runtime", "vote_average"} -> PyStr(S_NA)
      [] key = "overview" -> PyStr(S_NoOverview)
      [] key \in {"directors", "cast", "production_companies", "genres"} -> PyList(<<>>)

\* None, or the dict of the nine fields of the first matching row
get_movie_details(movies_df, movie_title) ==
    LET at == first_match(movies_df, movie_title)
    IN  IF at = 0
        THEN None
        ELSE [key \in DetailFields |->
                safe_get(movies_df[at], key, field_default(key, movie_title))]

\* the lookup run on the harness: the row it settled on, and what it returned
Lookup ==
    /\ lookup_out = <<>>
    /\ lookup_out' = [row |-> first_match(catalog, lookup_title),
                      details |-> get_movie_details(catalog, lookup_title)]
    /\ UNCHANGED <<catalog, lookup_title, sessionVars, flatVars, formVars, processVars>>

(***************************************************************************)
(* The matching on its own: catalogs of at most MaxCatalog rows.           *)
(***************************************************************************)
LookupChars == {"a", "A", "."}

Strings(chars, maxlen) == UNION {[1..n -> chars] : n \in 0..maxlen}

T_heat == <<"h","e","a","t">>
T_Hdotat == <<"H",".","a","t">>

TitleInputs ==
    {T_Heat, T_HeatWave, T_heat, T_Hdotat, T_Up, T_MrX} \cup Strings(LookupChars, MaxTitleLen)

\* a row with every column filled
FullRow(title_cell) ==
    [title |-> title_cell, year |-> PyInt(1995), directors |-> PyList(<<"d">>),
     cast |-> PyList(<<"c">>), production_companies |-> PyList(<<"p">>),
     overview |-> PyStr(T_Up), genres |-> PyList(<<"g">>), runtime |-> PyInt(170),
     vote_average |-> PyFloat(8)]

TitleCells == {PyStr(t) : t \in TitleInputs} \cup {NaN}

Catalogs == UNION {[1..n -> {FullRow(c) : c \in TitleCells}] : n \in 0..MaxCatalog}

ResolveInit ==
    /\ catalog \in Catalogs
    /\ lookup_title \in TitleInputs
    /\ lookup_out = <<>>
    /\ SessionStart /\ ProcessStart /\ FlattenIdle /\ FormIdle

SpecResolve == ResolveInit /\ [][Lookup]_vars

\* C9: comparing case-insensitively, the lookup settles on the first row
\* whose title equals the input if there is one, otherwise on the first row
\* whose title contains the input as a substring, and finds nothing exactly
\* when no title equals or contains the input.
C9_ExactThenSubstring ==
    lookup_out # <<>> =>
        LET rows_eq == {i \in 1..Len(catalog) : title_equals(catalog[i], lookup_title)}
            rows_sub == {i \in 1..Len(catalog) :
                           title_contains_literal(catalog[i], lookup_title)}
            first(S) == CHOOSE i \in S : \A j \in S : i <= j
        IN  /\ lookup_out.row = IF rows_eq # {} THEN first(rows_eq)
                                ELSE IF rows_sub # {} THEN first(rows_sub)
                                ELSE 0
            /\ (lookup_out.details = None) <=> (rows_eq = {} /\ rows_sub = {})

(***************************************************************************)
(* The field extraction on its own: a matched row whose cells are missing, *)
(* None, NaN, empty or filled.  One column holds one kind of cell and all   *)
(* the other columns another.                                              *)
(***************************************************************************)
CellKinds == {"missing", "none", "nan", "empty_list", "empty_tuple", "list", "str",
              "float"}

cell_of(kind) ==
    CASE kind = "none" -> PyNone
      [] kind = "nan" -> NaN
      [] kind = "empty_list" -> PyList(<<>>)
      [] kind = "empty_tuple" -> PyTuple(<<>>)
      [] kind = "list" -> PyList(<<"x">>)
      [] kind = "str" -> PyStr(T_Up)
      [] kind = "float" -> PyFloat(8)

kind_at(key, odd_key, odd_kind, kind) == IF key = odd_key THEN odd_kind ELSE kind

\* the row titled `title` whose column odd_key is of odd_kind and whose
\* other columns are of kind
DetailRow(title, odd_key, odd_kind, kind) ==
    [key \in {"title"} \cup {k \in DetailFields : kind_at(k, odd_key, odd_kind, kind) # "missing"}
       |-> IF key = "title" THEN PyStr(title)
           ELSE cell_of(kind_at(key, odd_key, odd_kind, kind))]

DetailRows ==
    {DetailRow(T_Heat, k, o, c) : k \in DetailFields \ {"title"}, o \in CellKinds, c \in CellKinds}

DetailsInit ==
    /\ catalog \in {<<r>> : r \in DetailRows}
                   \cup {<<FullRow(PyStr(T_Up)), r>> : r \in DetailRows}
    /\ lookup_title \in {T_Heat, T_heat, <<"e","a","t">>, T_MrX}
    /\ lookup_out = <<>>
    /\ SessionStart /\ ProcessStart /\ FlattenIdle /\ FormIdle

SpecDetails == DetailsInit /\ [][Lookup]_vars

\* a cell that is to be replaced by the default: an explicit null, a NaN, a
\* list or tuple of no elements
Degenerate(cell) ==
    \/ cell.type = "NoneType"
    \/ cell.type = "float" /\ cell.nan
    \/ cell.type \in {"list", "tuple"} /\ cell.items = <<>>

\* C10: for every matched row and each of the nine fields, a missing, null,
\* NaN or zero-element cell comes out as the field's default, and no field
\* of a returned record is a null or a NaN.
C10_DefaultsForMissing ==
    (lookup_out # <<>> /\ lookup_out.details # None) =>
        LET movie == catalog[lookup_out.row]
            details == lookup_out.details
        IN  /\ DOMAIN details = DetailFields
            /\ \A key \in DetailFields :
                 /\ (key \notin DOMAIN movie \/ Degenerate(movie[key]))
                       => details[key] = field_default(key, lookup_title)
                 /\ details[key].type # "NoneType"
                 /\ ~(details[key].type = "float" /\ details[key].nan)

\* a returned record of a second row, found by substring, with a NaN column
\* and the other columns None
C10_Witness ==
    /\ lookup_out # <<>> /\ lookup_out.details # None
    /\ lookup_out.row = 2
    /\ lookup_title # T_Heat
    /\ LET movie == catalog[lookup_out.row]
       IN  /\ "runtime" \in DOMAIN movie /\ movie["runtime"] = NaN
           /\ "year" \in DOMAIN movie /\ movie["year"] = PyNone
           /\ "genres" \in DOMAIN movie /\ movie["genres"] = PyNone
    /\ lookup_out.details["runtime"] = PyStr(S_NA)
    /\ lookup_out.details["genres"] = PyList(<<>>)

ScalarFields == {"title", "year", "overview", "runtime", "vote_average"}
ListFields == {"directors", "cast", "production_companies", "genres"}

\* a column of the matched row that is absent or holds a degenerate cell
Substituted(movie, key) == key \notin DOMAIN movie \/ Degenerate(movie[key])

\* C11 as claimed: the default substituted is 'N/A' for every scalar field
\* (title, year, overview, runtime, vote_average) and the empty sequence for
\* every list-valued field.
C11_NAForEveryScalar ==
    (lookup_out # <<>> /\ lookup_out.details # None) =>
        LET movie == catalog[lookup_out.row]
            details == lookup_out.details
        IN  \A key \in DetailFields :
              Substituted(movie, key) =>
                 details[key] = IF key \in ScalarFields THEN PyStr(S_NA) ELSE PyList(<<>>)

\* C11 as amended: the default substituted is 'N/A' for year, runtime and
\* vote_average, 'No overview available.' for overview, and the empty list
\* for directors, cast, production_companies and genres; the title of a
\* matched row is a string and is returned as it is.
C11_DefaultPerField ==
    (lookup_out # <<>> /\ lookup_out.details # None) =>
        LET movie == catalog[lookup_out.row]
            details == lookup_out.details
        IN  /\ ~Substituted(movie, "title") /\ details["title"] = movie["title"]
            /\ \A key \in DetailFields \ {"title"} :
                  Substituted(movie, key) =>
                     details[key] =
                        IF key = "overview" THEN PyStr(S_NoOverview)
                        ELSE IF key \in ScalarFields THEN PyStr(S_NA)
                        ELSE PyList(<<>>)

\* a returned record whose overview, year and cast were all substituted
C11_Witness ==
    /\ lookup_out # <<>> /\ lookup_out.details # None
    /\ LET movie == catalog[lookup_out.row]
       IN  /\ Substituted(movie, "overview")
           /\ Substituted(movie, "year")
           /\ Substituted(movie, "cast")
    /\ lookup_out.details["overview"] = PyStr(S_NoOverview)
    /\ lookup_out.details["year"] = PyStr(S_NA)
    /\ lookup_out.details["cast"] = PyList(<<>>)

(***************************************************************************)
(* The validators on their own: validate_email and the signup and login    *)
(* forms' checks, run on typed-in fields.                                  *)
(***************************************************************************)
EmailChars == {"a", "1", "@", ".", "\n"}

E_Minimal == <<"a","@","a",".","a","a">>
E_Newline == <<"a","@","a",".","a","a","\n">>

\* addresses over the whole of the pattern's character classes
E_Classes == <<"a","_","%","+","-",".","Z","9","@","b","-",".","X","0",".","c","O","m">>
E_DomainUnderscore == <<"a","@","b","_",".","c","o">>
E_TldDigit == <<"a","@","b",".","c","0">>
E_Space == <<"a"," ","@","b",".","c","o">>

EmailStrings ==
    Strings(EmailChars, MaxEmailLen)
        \cup EmailInputs
        \cup {E_Minimal, E_Newline}
        \cup {E_Classes, E_DomainUnderscore, E_TldDigit, E_Space}

ValidateInit ==
    /\ \/ form_in \in [email : EmailStrings, password : {<<>>}, verify_password : {<<>>}]
       \/ form_in \in [email : EmailInputs, password : PasswordInputs,
                        verify_password : PasswordInputs]
    /\ form_out = <<>>
    /\ SessionStart /\ ProcessStart /\ FlattenIdle /\ LookupIdle

\* the checks a run of the signup page and of the login page make of the fields
Validate ==
    /\ form_in # <<>> /\ form_out = <<>>
    /\ form_out' =
          [valid_email |-> validate_email(form_in.email),
           signup_error |-> signup_error(form_in.email, form_in.password,
                                         form_in.verify_password),
           can_create |-> can_create(form_in.email, form_in.password,
                                     form_in.verify_password),
           login_error |-> login_error(form_in.email),
           can_login |-> can_login(form_in.email, form_in.password)]
    /\ UNCHANGED <<form_in, sessionVars, flatVars, lookupVars, processVars>>

SpecValidate == ValidateInit /\ [][Validate]_vars

Letters == Lower \cup Upper

\* s is local@domain.tld: a non-empty local part, one "@", a non-empty
\* domain, a "." and a final label of at least two letters, the local part
\* and the domain of the characters an address is written in
WellFormedAddress(s) ==
    \E at \in 1..Len(s) : \E dot \in (at + 1)..Len(s) :
        /\ s[at] = "@" /\ s[dot] = "."
        /\ at - 1 >= 1 /\ dot - at - 1 >= 1 /\ Len(s) - dot >= 2
        /\ \A k \in 1..(at - 1) : s[k] \in Letters \cup Digit \cup {".", "_", "%", "+", "-"}
        /\ \A k \in (at + 1)..(dot - 1) : s[k] \in Letters \cup Digit \cup {".", "-"}
        /\ \A k \in (dot + 1)..Len(s) : s[k] \in Letters

\* C12: validate_email(s) is true exactly for the strings of the form
\* local@domain.tld whose final label has at least two letters, and false
\* for every other string.
C12_TrueExactlyForAddresses ==
    form_out # <<>> => (form_out.valid_email <=> WellFormedAddress(form_in.email))

\* C13 as claimed: validate_email accepts "a@b.c" and rejects "not-an-email"
\* and the empty string.
C13_AcceptsOneLetterTld ==
    form_out # <<>> =>
        /\ form_in.email = E_ShortTld => form_out.valid_email
        /\ form_in.email = E_NoAt => ~form_out.valid_email
        /\ form_in.email = <<>> => ~form_out.valid_email

\* C13 as amended: validate_email rejects "a@b.c", whose final label has one
\* letter, accepts "a@b.co", and rejects "not-an-email" and the empty
\* string.
C13_RejectsOneLetterTld ==
    form_out # <<>> =>
        /\ form_in.email = E_ShortTld => ~form_out.valid_email
        /\ form_in.email = E_Valid => form_out.valid_email
        /\ form_in.email = E_NoAt => ~form_out.valid_email
        /\ form_in.email = <<>> => ~form_out.valid_email

\* validate_email has been run on "a@b.c" and has rejected it
C13_Witness ==
    /\ form_out # <<>>
    /\ form_in.email = E_ShortTld
    /\ ~form_out.valid_email

\* the violations of §4.2; a rule applies to the fields that are filled in
InvalidEmail(f) == f.email # <<>> /\ ~validate_email(f.email)
PasswordMismatch(f) ==
    f.password # <<>> /\ f.verify_password # <<>> /\ f.password # f.verify_password
PasswordTooShort(f) == f.password # <<>> /\ Len(f.password) < 6

\* C14: the signup validator reports the first applicable violation in the
\* order invalid email, password mismatch, password too short, and nothing
\* when none applies; "abc" with confirmation "abc" is too short, and
\* "abcdef" with confirmation "abcdeg" is a mismatch.
C14_FirstViolationInOrder ==
    form_out # <<>> =>
        /\ form_out.signup_error =
              IF InvalidEmail(form_in) THEN "Please enter a valid email address."
              ELSE IF PasswordMismatch(form_in) THEN "Passwords do not match."
              ELSE IF PasswordTooShort(form_in) THEN "Password must be at least 6 characters."
              ELSE "no error"
        /\ (~InvalidEmail(form_in) /\ form_in.password = P_abc
                /\ form_in.verify_password = P_abc)
              => form_out.signup_error = "Password must be at least 6 characters."
        /\ (~InvalidEmail(form_in) /\ form_in.password = P_abcdef
                /\ form_in.verify_password = P_abcdeg)
              => form_out.signup_error = "Passwords do not match."

\* a short password with a different confirmation: both password rules are
\* violated and the mismatch is the one reported
C14_Witness ==
    /\ form_out # <<>>
    /\ form_in.email = E_Valid
    /\ form_in.password = P_abc /\ form_in.verify_password = P_abcdef
    /\ form_out.signup_error = "Passwords do not match."

(***************************************************************************)
(* The detail dropdown on its own: a result is flattened, an entry of the  *)
(* dropdown is chosen, its label is parsed and the title looked up.        *)
(***************************************************************************)
DigitSeq == <<"0","1","2","3","4","5","6","7","8","9">>

\* str(n) of a non-negative integer
RECURSIVE str_int(_)
str_int(n) ==
    IF n < 10 THEN <<DigitSeq[n + 1]>>
    ELSE str_int(n \div 10) \o <<DigitSeq[(n % 10) + 1]>>

\* f"{idx}. {title}"
format_option(idx, title) == str_int(idx) \o <<".", " ">> \o title

\* the entries of the dropdown after "Select a movie..."
movie_options(movies) ==
    [i \in 1..Len(movies) |-> format_option(movies[i][1], movies[i][2])]

\* where sep first starts in text; 0 when it does not occur
find(text, sep) ==
    LET starts == {k \in 1..(Len(text) - Len(sep) + 1) :
                     \A j \in 1..Len(sep) : text[k + j - 1] = sep[j]}
    IN  IF starts = {} THEN 0 ELSE CHOOSE k \in starts : \A m \in starts : k <= m

\* as selected_title, the label split at its last ". "
selected_title_last_separator(selected) ==
    LET sep == <<".", " ">>
        starts == {k \in 1..(Len(selected) - 1) :
                     selected[k] = sep[1] /\ selected[k + 1] = sep[2]}
    IN  IF starts = {} THEN selected
        ELSE LET at == CHOOSE k \in starts : \A m \in starts : k >= m
             IN  SubSeq(selected, at + 2, Len(selected))

\* selected.split(". ", 1)[1] if ". " in selected else selected
selected_title(selected) ==
    LET at == find(selected, <<".", " ">>)
    IN  IF at = 0 THEN selected ELSE SubSeq(selected, at + 2, Len(selected))

T_DotX == <<".", " ", "X">>
T_2Up == <<"2", ".", " ", "U", "p">>

SelectTitlePool == <<T_Heat, T_MrX, T_2Up, T_DotX>>

SelectTrack(n, offset) ==
    [i \in 1..n |->
        [movie_title |-> SelectTitlePool[((i + offset) % Len(SelectTitlePool)) + 1],
         final_score |-> n + 1 - i]]

SelectResults ==
    {SingleResult(SelectTrack(n, o)) : n \in 0..MaxTrackLen, o \in 0..1}
        \cup {DualResult(TRUE, SelectTrack(MaxTrackLen, 0), SelectTrack(n, 1)) :
                 n \in 1..MaxTrackLen}

SelectCatalogs ==
    UNION {[1..n -> {FullRow(c) : c \in {PyStr(T_MrX), PyStr(T_Heat), PyStr(T_heat),
                                          PyStr(T_2Up), PyStr(T_DotX), NaN}}] :
             n \in 0..MaxCatalog}

SelectInit ==
    /\ flat_in \in [result : SelectResults, top_n : {TopNMin, DefaultTopN}]
    /\ flat_out = <<>>
    /\ catalog \in SelectCatalogs
    /\ lookup_title = <<>>
    /\ lookup_out = <<>>
    /\ SessionStart /\ ProcessStart /\ FormIdle

\* entry i of the dropdown is chosen: its label is parsed and the title looked up
SelectEntry(i) ==
    /\ flat_out # <<>> /\ ~flat_out.raised
    /\ lookup_out = <<>>
    /\ i \in 1..Len(flat_out.all_movies)
    /\ LET selected == movie_options(flat_out.all_movies)[i]
       IN  /\ lookup_title' = selected_title(selected)
           /\ lookup_out' = [index |-> i,
                             selected |-> selected,
                             row |-> first_match(catalog, selected_title(selected)),
                             details |-> get_movie_details(catalog, selected_title(selected))]
    /\ UNCHANGED <<catalog, sessionVars, flatVars, formVars, processVars>>

NextSelect ==
    \/ Flatten
    \/ \E i \in 1..(2 * MaxTrackLen) : SelectEntry(i)

SpecSelect == SelectInit /\ [][NextSelect]_vars

\* the catalog has a row of exactly this title
InCatalog(title) == \E k \in 1..Len(catalog) : catalog[k]["title"] = PyStr(title)

\* C23: the label "rank. title" of a chosen entry of all_movies_list parses
\* back to the entry's title, also when the title contains ". "; when the
\* catalog has that title, the lookup returns a record, that of a row of
\* that title (compared, as the lookup compares, without regard to case);
\* and a single-track result of n <= top_n entries is flattened to exactly n
\* tuples ranked 1..n.
C23_LabelResolvesTitle ==
    /\ (flat_out # <<>> /\ lookup_out # <<>>) =>
          LET entry == flat_out.all_movies[lookup_out.index]
          IN  /\ lookup_title = entry[2]
              /\ InCatalog(entry[2])
                    => /\ lookup_out.details # None
                       /\ lookup_out.row \in 1..Len(catalog)
                       /\ lower(catalog[lookup_out.row]["title"].v) = lower(entry[2])
                       /\ lookup_out.details["title"] = catalog[lookup_out.row]["title"]
    /\ (flat_out # <<>> /\ "recommendations" \in DOMAIN flat_in.result
           /\ Len(flat_in.result.recommendations) <= flat_in.top_n) =>
          /\ ~flat_out.raised
          /\ Len(flat_out.all_movies) = Len(flat_in.result.recommendations)
          /\ \A k \in 1..Len(flat_out.all_movies) :
                /\ flat_out.all_movies[k][1] = k
                /\ flat_out.all_movies[k][2] = flat_in.result.recommendations[k].movie_title

\* the entry ranked 5 of a single-track list, "Mr. X", chosen and found in
\* the catalog
C23_Witness ==
    /\ flat_out # <<>> /\ lookup_out # <<>>
    /\ "recommendations" \in DOMAIN flat_in.result
    /\ lookup_out.index = 5
    /\ flat_out.all_movies[5][2] = T_MrX
    /\ lookup_out.selected = <<"5", ".", " ", "M", "r", ".", " ", "X">>
    /\ lookup_title = T_MrX
    /\ lookup_out.details # None
    /\ lookup_out.details["title"] = PyStr(T_MrX)

====
